---------------------------- MODULE Spec2Model ----------------------------
(***************************************************************************)
(* Workout-planning API (Express + Prisma): the ownership-scoped resource  *)
(* hierarchy User -> Plan -> Day -> Section -> Exercise and the manually   *)
(* assigned order columns dayOrder / sectionOrder / exerciseOrder.         *)
(*                                                                         *)
(* Every route handler is a chain of awaited Prisma calls.  Each awaited   *)
(* call is one atomic step of the handler; between two awaits of one       *)
(* request the steps of another request may run.  A request slot p holds   *)
(* the handler's position (pc), its parameters and locals (req) and, once  *)
(* the handler has answered, the response (resp).                          *)
(***************************************************************************)
EXTENDS Integers, Sequences, FiniteSets, TLC

\* ------------------------------------------------------------------ bounds
\* The most rows of a table a specification lets the requests create: Single
\* where one row shows what the claims are about, otherwise the Max of the table.
Single == 1
MaxPlans == 2
MaxDays == 2
MaxExercises == 2

\* ------------------------------------------------------------- value model
\* A nullable / optional JS value: {} is null or undefined, {v} is the value v.
None == {}
Some(v) == {v}
Val(o) == CHOOSE v \in o : TRUE

\* A JS number in a request body: {n} is the integer n, {n, n + 1} a number
\* strictly between n and n + 1 (such as 1.5).
Between(n) == {n, n + 1}
IsInteger(o) == Cardinality(o) = 1
Floor(o) == CHOOSE v \in o : \A w \in o : v <= w

\* A JS string is the sequence of its characters.
RECURSIVE TrimStart(_)
TrimStart(s) ==
    IF s # <<>> /\ Head(s) = " " THEN TrimStart(Tail(s)) ELSE s

RECURSIVE TrimEnd(_)
TrimEnd(s) ==
    IF s # <<>> /\ s[Len(s)] = " " THEN TrimEnd(SubSeq(s, 1, Len(s) - 1)) ELSE s

\* String.prototype.trim
Trim(s) == TrimEnd(TrimStart(s))

\* `x?.trim()` of an optional string: undefined stays undefined.
OptTrim(o) == IF o = None THEN None ELSE Some(Trim(Val(o)))

\* JS truthiness of an optional string: undefined and "" are falsy.
Truthy(o) == o # None /\ Val(o) # <<>>

Digit(d) == <<"0", "1", "2", "3", "4", "5", "6", "7", "8", "9">>[d + 1]

\* Decimal text of a non-negative integer, as a template literal prints it.
RECURSIVE NumText(_)
NumText(n) ==
    IF n < 10 THEN <<Digit(n)>> ELSE NumText(n \div 10) \o <<Digit(n % 10)>>

Users == {"u1", "u2"}
Procs == {1, 2}

\* The three sections a day is created with, in the order of the nested create.
SectionTypes == <<"warmup", "workout", "stretch">>

\* The id of the k-th section created with day dayId (ids are unique per row).
SectionIdOf(dayId, k) == 3 * (dayId - 1) + k

VARIABLES
    plans,          \* table Plan:     [id, userId, title, createdAt]
    days,           \* table Day:      [id, planId, name, dayOrder]
    sections,       \* table Section:  [id, dayId, type, sectionOrder]
    exercises,      \* table Exercise: [id, sectionId, name, mode, exerciseOrder,
                    \*                  sets, reps, timeValue, timeUnit]
    nextPlanId,     \* number of Plan ids handed out so far (ids are never reused)
    nextDayId,
    nextExerciseId,
    pc,             \* pc[p]: position of the handler running in slot p
    req,            \* req[p]: the request of slot p with the handler's locals
    resp,           \* resp[p]: the response of slot p's request, once answered
    header,         \* header[p]: {} while no request has been presented to slot p,
                    \* {h} once one has, h being its Authorization header
    userRows,       \* the User table: rows [id, email, password]
    form            \* the client's exercise form: its fields, whether a save is
                    \* under way, and what the latest save showed and sent

store == <<plans, days, sections, exercises, userRows>>
ids == <<nextPlanId, nextDayId, nextExerciseId>>
vars == <<plans, days, sections, exercises, nextPlanId, nextDayId, nextExerciseId,
          pc, req, resp, header, userRows, form>>

NoReq == [op |-> "none"]
NoResp == [status |-> 0, error |-> "", rows |-> <<>>]

Ok(status, rows) == [status |-> status, error |-> "", rows |-> rows]
Err(status, error) == [status |-> status, error |-> error, rows |-> <<>>]

\* A Prisma call that throws inside the async handler (record to update or
\* delete not found, foreign key violated, connection lost): nothing is
\* written by that call.  No handler catches the rejection and the app
\* installs no error middleware, so what the caller sees is left to the
\* framework the app is built with: its default error handler answers 500
\* with the bare status text (Thrown) or with the error's message and stack
\* (ThrownWithStack), or the rejected promise is dropped and no answer is
\* ever sent (Unanswered).
Thrown == Err(500, "Internal Server Error")
ThrownWithStack == Err(500, "PrismaClientKnownRequestError: message and stack")
Unanswered == NoResp

Rejections == {Thrown, ThrownWithStack, Unanswered}

\* The form as useState initializes it, for adding (isEdit false) or editing.
MountedForm(isEdit) ==
    [open |-> TRUE, isEdit |-> isEdit, name |-> <<>>, mode |-> "reps",
     sets |-> <<"3">>, reps |-> <<"1", "2">>,
     timeValue |-> <<"3", "0">>, timeUnit |-> "sec",
     saving |-> FALSE, alert |-> None, request |-> None]

Init ==
    /\ plans = {}
    /\ days = {}
    /\ sections = {}
    /\ exercises = {}
    /\ nextPlanId = 0
    /\ nextDayId = 0
    /\ nextExerciseId = 0
    /\ pc = [p \in Procs |-> "idle"]
    /\ req = [p \in Procs |-> NoReq]
    /\ resp = [p \in Procs |-> NoResp]
    /\ header = [p \in Procs |-> {}]
    /\ userRows = {}
    /\ form = [MountedForm(FALSE) EXCEPT !.open = FALSE]

\* The handler of slot p answers r and ends.
Reply(p, r, q) ==
    /\ pc' = [pc EXCEPT ![p] = "done"]
    /\ req' = [req EXCEPT ![p] = q]
    /\ resp' = [resp EXCEPT ![p] = r]
    /\ header' = header

\* The handler of slot p awaits its next Prisma call at position at.
Await(p, at, q) ==
    /\ pc' = [pc EXCEPT ![p] = at]
    /\ req' = [req EXCEPT ![p] = q]
    /\ resp' = [resp EXCEPT ![p] = NoResp]
    /\ header' = header

\* An awaited Prisma call of the handler of slot p rejects: the handler ends
\* there, with one of the outcomes of an uncaught rejection.
Throw(p) == \E r \in Rejections : Reply(p, r, req[p])

\* The store is unreachable (connection lost, timeout) when the handler of
\* slot p makes the Prisma call it is waiting at: the call rejects and has
\* written nothing.
StoreFailure(p) ==
    /\ pc[p] \notin {"idle", "done"}
    /\ Throw(p)
    /\ UNCHANGED <<store, ids, form>>

\* The request of slot p is over (its response delivered, or given up by the
\* caller when none came): the slot takes the next request.
Release(p) ==
    /\ pc[p] = "done"
    /\ pc' = [pc EXCEPT ![p] = "idle"]
    /\ req' = [req EXCEPT ![p] = NoReq]
    /\ resp' = [resp EXCEPT ![p] = NoResp]
    /\ header' = [header EXCEPT ![p] = {}]
    /\ UNCHANGED <<plans, days, sections, exercises, nextPlanId, nextDayId, nextExerciseId, userRows, form>>

\* ---------------------------------------------------------- authentication
\* String.prototype.split on a one-character separator.
RECURSIVE Split(_, _)
Split(s, sep) ==
    IF \A i \in 1..Len(s) : s[i] # sep THEN <<s>>
    ELSE LET i == CHOOSE k \in 1..Len(s) : s[k] = sep /\ \A j \in 1..(k - 1) : s[j] # sep
         IN <<SubSeq(s, 1, i - 1)>> \o Split(SubSeq(s, i + 1, Len(s)), sep)

\* jwt.sign({ userId }, JWT_SECRET): the token the app issues to a user.
signToken(userId) == IF userId = "u1" THEN <<"t", "1">> ELSE <<"t", "2">>

\* The payload read off a token whatever its signature.
jwtDecode(token) ==
    {u \in Users : Len(token) = 2 /\ token[2] = signToken(u)[2]}

\* jwt.verify(token, JWT_SECRET): the userId of the payload of a token the
\* app has signed, {} when verify throws.
jwtVerify(token) == {u \in Users : signToken(u) = token}

\* The second element of header.split(" "), undefined ({}) when there is none.
TokenOf(hdr) ==
    LET parts == Split(Val(hdr), <<" ">>[1]) IN
    IF Len(parts) >= 2 THEN Some(parts[2]) ELSE None

\* requireAuth: the 401 it answers, or NoResp when it calls next().
requireAuth(hdr) ==
    IF ~Truthy(hdr) THEN Err(401, "No token")
    ELSE IF ~Truthy(TokenOf(hdr)) THEN Err(401, "No token")
    ELSE IF jwtVerify(Val(TokenOf(hdr))) = {} THEN Err(401, "Invalid token")
    ELSE NoResp

\* req.userId as requireAuth sets it before next(): {} when it does not.
UserIdOf(hdr) ==
    IF requireAuth(hdr) = NoResp THEN jwtVerify(Val(TokenOf(hdr))) ELSE {}

\* The users for whom a route handler may run in slot p: the one requireAuth
\* has put in req.userId, if it has called next() for the request presented.
AuthedAs(p) == IF header[p] = {} THEN {} ELSE UserIdOf(Val(header[p]))

\* A request with Authorization header hdr (None: no such header) is
\* presented to slot p.
Present(p, hdr) ==
    /\ pc[p] = "idle"
    /\ header[p] = {}
    /\ header' = [header EXCEPT ![p] = {hdr}]
    /\ UNCHANGED <<store, ids, pc, req, resp, form>>

\* requireAuth answers the request presented to slot p, for route op, with
\* 401: next() is not called and the route handler does not run.
Unauthenticated(p, op) ==
    /\ pc[p] = "idle"
    /\ header[p] # {}
    /\ requireAuth(Val(header[p])) # NoResp
    /\ Reply(p, requireAuth(Val(header[p])), [op |-> op])
    /\ UNCHANGED <<store, ids, form>>

\* ------------------------------------------------------------ store queries
PlanById(id) == {pl \in plans : pl.id = id}
DayById(id) == {d \in days : d.id = id}
SectionById(id) == {s \in sections : s.id = id}
ExerciseById(id) == {e \in exercises : e.id = id}

\* The user that owns a row, walking the parent chain up to the Plan.
OwnerOfPlan(id) == {pl.userId : pl \in PlanById(id)}
OwnerOfDay(id) == UNION {OwnerOfPlan(d.planId) : d \in DayById(id)}
OwnerOfSection(id) == UNION {OwnerOfDay(s.dayId) : s \in SectionById(id)}
OwnerOfExercise(id) == UNION {OwnerOfSection(e.sectionId) : e \in ExerciseById(id)}

\* prisma.plan.findFirst({ where: { id, userId } })
findPlanOwned(id, userId) == {pl \in plans : pl.id = id /\ pl.userId = userId}

assertPlanOwned(planId, userId) == findPlanOwned(planId, userId) # {}

\* The lookup of a day without the walk up to the owning user.
getDayAnyOwner(dayId, userId) == {d \in days : d.id = dayId}

getDayIfOwned(dayId, userId) ==
    {d \in days : d.id = dayId /\ userId \in OwnerOfPlan(d.planId)}

getSectionIfOwned(sectionId, userId) ==
    {s \in sections : s.id = sectionId /\ userId \in OwnerOfDay(s.dayId)}

\* The lookup without the walk up to the owning user.
getExerciseAnyOwner(exerciseId, userId) ==
    {e \in exercises : e.id = exerciseId}

getExerciseIfOwned(exerciseId, userId) ==
    {e \in exercises : e.id = exerciseId /\ userId \in OwnerOfSection(e.sectionId)}

\* A cascade that takes the exercises of every section.
ExercisesOfAnySection(ss) == exercises

\* A foreign key without the cascade: no day goes with a deleted plan.
DaysOfNoPlan(ps) == {}

\* ON DELETE CASCADE: the rows that go with a set of deleted plans / days.
DaysOfPlans(ps) == {d \in days : d.planId \in ps}
SectionsOfDays(ds) == {s \in sections : s.dayId \in ds}
ExercisesOfSections(ss) == {e \in exercises : e.sectionId \in ss}

\* The orderings of the rows S a query may return: a permutation of S.
Orderings(S) ==
    {f \in [1..Cardinality(S) -> S] :
        \A i, j \in 1..Cardinality(S) : i # j => f[i] # f[j]}

\* A query without orderBy: the rows in whatever order the database has them.
Unordered(S, column) == Orderings(S)

\* orderBy: { [column]: "asc" }: rows with equal values of the column come in
\* whatever order the database returns them.
Ascending(S, column) ==
    {f \in Orderings(S) :
        \A i, j \in 1..Cardinality(S) : i < j => f[i][column] <= f[j][column]}

\* orderBy: { [column]: "desc" }
Descending(S, column) ==
    {f \in Orderings(S) :
        \A i, j \in 1..Cardinality(S) : i < j => f[i][column] >= f[j][column]}

SetMax(S) == CHOOSE m \in S : \A x \in S : x <= m


\* ------------------------------------------------------------------- plans
\* GET /plans without the where clause: the plans of every user.
GetPlansOfAll(p, u) ==
    /\ pc[p] = "idle"
    /\ \E rows \in Descending(plans, "createdAt") :
          Reply(p, Ok(200, rows), [op |-> "GET /plans", user |-> u])
    /\ UNCHANGED <<store, ids, form>>

\* GET /plans
GetPlans(p, u) ==
    /\ pc[p] = "idle"
    /\ \E rows \in Descending({pl \in plans : pl.userId = u}, "createdAt") :
          Reply(p, Ok(200, rows), [op |-> "GET /plans", user |-> u])
    /\ UNCHANGED <<store, ids, form>>

\* POST /plans storing the plan before it looks at the title.
PostPlansStoreFirst(p, u, title) ==
    /\ pc[p] = "idle"
    /\ LET q == [op |-> "POST /plans", user |-> u, title |-> title]
           plan == [id |-> nextPlanId + 1, userId |-> u,
                    title |-> Trim(Val(title)), createdAt |-> nextPlanId + 1] IN
       /\ plans' = plans \cup {plan}
       /\ nextPlanId' = nextPlanId + 1
       /\ IF ~Truthy(OptTrim(title))
          THEN Reply(p, Err(400, "Title required"), q)
          ELSE Reply(p, Ok(201, <<plan>>), q)
    /\ UNCHANGED <<days, sections, exercises, nextDayId, nextExerciseId, userRows, form>>

\* POST /plans
PostPlans(p, u, title) ==
    /\ pc[p] = "idle"
    /\ LET q == [op |-> "POST /plans", user |-> u, title |-> title] IN
       IF ~Truthy(OptTrim(title))
       THEN /\ Reply(p, Err(400, "Title required"), q)
            /\ UNCHANGED <<store, ids, form>>
       ELSE /\ LET plan == [id |-> nextPlanId + 1, userId |-> u,
                            title |-> Trim(Val(title)), createdAt |-> nextPlanId + 1] IN
               /\ plans' = plans \cup {plan}
               /\ nextPlanId' = nextPlanId + 1
               /\ Reply(p, Ok(201, <<plan>>), q)
            /\ UNCHANGED <<days, sections, exercises, nextDayId, nextExerciseId, userRows, form>>

\* PATCH /plans/:id, up to the ownership lookup
PatchPlanCheck(p, u, id, title) ==
    /\ pc[p] = "idle"
    /\ LET q == [op |-> "PATCH /plans/:id", user |-> u, id |-> id, title |-> title] IN
       IF ~Truthy(OptTrim(title))
       THEN Reply(p, Err(400, "Title required"), q)
       ELSE IF findPlanOwned(id, u) = {}
       THEN Reply(p, Err(404, "Not found"), q)
       ELSE Await(p, "patchPlan.update", q)
    /\ UNCHANGED <<store, ids, form>>

\* PATCH /plans/:id, prisma.plan.update
PatchPlanUpdate(p) ==
    /\ pc[p] = "patchPlan.update"
    /\ IF PlanById(req[p].id) = {}
       THEN /\ Throw(p)
            /\ UNCHANGED plans
       ELSE LET old == Val(PlanById(req[p].id))
                updated == [old EXCEPT !.title = Trim(Val(req[p].title))] IN
            /\ plans' = (plans \ {old}) \cup {updated}
            /\ Reply(p, Ok(200, <<updated>>), req[p])
    /\ UNCHANGED <<days, sections, exercises, ids, userRows, form>>

\* DELETE /plans/:id, the ownership lookup
DeletePlanCheck(p, u, id) ==
    /\ pc[p] = "idle"
    /\ LET q == [op |-> "DELETE /plans/:id", user |-> u, id |-> id] IN
       IF findPlanOwned(id, u) = {}
       THEN Reply(p, Err(404, "Not found"), q)
       ELSE Await(p, "deletePlan.delete", q)
    /\ UNCHANGED <<store, ids, form>>

\* The delete step answering 204 with the row left in place.
DeletePlanAnswerOnly(p) ==
    /\ pc[p] = "deletePlan.delete"
    /\ Reply(p, Ok(204, <<>>), req[p])
    /\ UNCHANGED <<store, ids, form>>

\* DELETE /plans/:id, prisma.plan.delete with the cascade of the foreign keys
DeletePlanDelete(p) ==
    /\ pc[p] = "deletePlan.delete"
    /\ IF PlanById(req[p].id) = {}
       THEN /\ Throw(p)
            /\ UNCHANGED store
       ELSE LET ds == DaysOfPlans({req[p].id})
                ss == SectionsOfDays({d.id : d \in ds})
                es == ExercisesOfSections({s.id : s \in ss}) IN
            /\ plans' = plans \ PlanById(req[p].id)
            /\ days' = days \ ds
            /\ sections' = sections \ ss
            /\ exercises' = exercises \ es
            /\ Reply(p, Ok(204, <<>>), req[p])
    /\ UNCHANGED <<ids, userRows, form>>


\* -------------------------------------------------------------------- days
\* GET /plans/:planId/days, assertPlanOwned
GetDaysCheck(p, u, planId) ==
    /\ pc[p] = "idle"
    /\ LET q == [op |-> "GET /plans/:planId/days", user |-> u, id |-> planId] IN
       IF ~assertPlanOwned(planId, u)
       THEN Reply(p, Err(404, "Plan not found"), q)
       ELSE Await(p, "getDays.findMany", q)
    /\ UNCHANGED <<store, ids, form>>

\* GET /plans/:planId/days, prisma.day.findMany ordered by dayOrder
GetDaysFind(p) ==
    /\ pc[p] = "getDays.findMany"
    /\ \E rows \in Ascending({d \in days : d.planId = req[p].id}, "dayOrder") :
          Reply(p, Ok(200, rows), req[p])
    /\ UNCHANGED <<store, ids, form>>

\* POST /plans/:planId/days, assertPlanOwned
PostDayCheck(p, u, planId, name) ==
    /\ pc[p] = "idle"
    /\ LET q == [op |-> "POST /plans/:planId/days", user |-> u, id |-> planId,
                 name |-> name, nextOrder |-> 0] IN
       IF ~assertPlanOwned(planId, u)
       THEN Reply(p, Err(404, "Plan not found"), q)
       ELSE Await(p, "postDay.findFirst", q)
    /\ UNCHANGED <<store, ids, form>>

\* nextOrder = (last?.dayOrder ?? 0) + 1 over the days of the plan
NextDayOrder(planId) ==
    LET orders == {d.dayOrder : d \in {d \in days : d.planId = planId}} IN
    (IF orders = {} THEN 0 ELSE SetMax(orders)) + 1

\* POST /plans/:planId/days, prisma.day.findFirst of the highest dayOrder
PostDayReadMax(p) ==
    /\ pc[p] = "postDay.findFirst"
    /\ Await(p, "postDay.create", [req[p] EXCEPT !.nextOrder = NextDayOrder(req[p].id)])
    /\ UNCHANGED <<store, ids, form>>

\* A default that applies only when the name is absent (`??` in place of
\* `||`), the name taken as sent.
DayNameKeepBlank(name, nextOrder) ==
    IF name = None THEN <<"D", "a", "y", " ">> \o NumText(nextOrder) ELSE Val(name)

\* dayName = (name?.trim() || `Day ${nextOrder}`).trim()
DayName(name, nextOrder) ==
    Trim(IF Truthy(OptTrim(name)) THEN Val(OptTrim(name))
         ELSE <<"D", "a", "y", " ">> \o NumText(nextOrder))

\* The sections of the nested create of a day: warmup 1, workout 2, stretch 3.
NewSections(dayId) ==
    {[id |-> SectionIdOf(dayId, k), dayId |-> dayId, type |-> SectionTypes[k],
      sectionOrder |-> k] : k \in 1..3}

\* The create storing the day row alone, its sections left to later writes.
PostDayCreateDayOnly(p) ==
    /\ pc[p] = "postDay.create"
    /\ LET day == [id |-> nextDayId + 1, planId |-> req[p].id,
                   name |-> DayName(req[p].name, req[p].nextOrder),
                   dayOrder |-> req[p].nextOrder] IN
       /\ days' = days \cup {day}
       /\ nextDayId' = nextDayId + 1
       /\ Reply(p, Ok(201, <<day>>), req[p])
    /\ UNCHANGED <<plans, sections, exercises, nextPlanId, nextExerciseId, userRows, form>>

\* POST /plans/:planId/days, prisma.day.create with the nested sections
\* (one nested write: the day and its sections are inserted together)
PostDayCreate(p) ==
    /\ pc[p] = "postDay.create"
    /\ IF PlanById(req[p].id) = {}
       THEN /\ Throw(p)
            /\ UNCHANGED <<days, sections, nextDayId>>
       ELSE /\ LET day == [id |-> nextDayId + 1, planId |-> req[p].id,
                           name |-> DayName(req[p].name, req[p].nextOrder),
                           dayOrder |-> req[p].nextOrder] IN
               /\ days' = days \cup {day}
               /\ sections' = sections \cup NewSections(day.id)
               /\ nextDayId' = nextDayId + 1
               /\ Reply(p, Ok(201, <<day>>), req[p])
    /\ UNCHANGED <<plans, exercises, nextPlanId, nextExerciseId, userRows, form>>

\* POST /plans/:planId/days with the store unreachable at the first Prisma
\* call of the handler, the findFirst of assertPlanOwned.
PostDayStoreDown(p, u, planId, name) ==
    /\ pc[p] = "idle"
    /\ \E r \in Rejections :
          Reply(p, r, [op |-> "POST /plans/:planId/days", user |-> u, id |-> planId,
                       name |-> name, nextOrder |-> 0])
    /\ UNCHANGED <<store, ids, form>>

\* PATCH /days/:dayId, up to getDayIfOwned
PatchDayCheck(p, u, dayId, name) ==
    /\ pc[p] = "idle"
    /\ LET q == [op |-> "PATCH /days/:dayId", user |-> u, id |-> dayId, name |-> name] IN
       IF ~Truthy(OptTrim(name))
       THEN Reply(p, Err(400, "Name required"), q)
       ELSE IF getDayIfOwned(dayId, u) = {}
       THEN Reply(p, Err(404, "Day not found"), q)
       ELSE Await(p, "patchDay.update", q)
    /\ UNCHANGED <<store, ids, form>>

\* PATCH /days/:dayId, prisma.day.update
PatchDayUpdate(p) ==
    /\ pc[p] = "patchDay.update"
    /\ IF DayById(req[p].id) = {}
       THEN /\ Throw(p)
            /\ UNCHANGED days
       ELSE LET old == Val(DayById(req[p].id))
                updated == [old EXCEPT !.name = Trim(Val(req[p].name))] IN
            /\ days' = (days \ {old}) \cup {updated}
            /\ Reply(p, Ok(200, <<updated>>), req[p])
    /\ UNCHANGED <<plans, sections, exercises, ids, userRows, form>>

\* DELETE /days/:dayId, getDayIfOwned
DeleteDayCheck(p, u, dayId) ==
    /\ pc[p] = "idle"
    /\ LET q == [op |-> "DELETE /days/:dayId", user |-> u, id |-> dayId] IN
       IF getDayIfOwned(dayId, u) = {}
       THEN Reply(p, Err(404, "Day not found"), q)
       ELSE Await(p, "deleteDay.delete", q)
    /\ UNCHANGED <<store, ids, form>>

\* DELETE /days/:dayId, prisma.day.delete with the cascade of the foreign keys
DeleteDayDelete(p) ==
    /\ pc[p] = "deleteDay.delete"
    /\ IF DayById(req[p].id) = {}
       THEN /\ Throw(p)
            /\ UNCHANGED <<days, sections, exercises>>
       ELSE LET ss == SectionsOfDays({req[p].id})
                es == ExercisesOfSections({s.id : s \in ss}) IN
            /\ days' = days \ DayById(req[p].id)
            /\ sections' = sections \ ss
            /\ exercises' = exercises \ es
            /\ Reply(p, Ok(204, <<>>), req[p])
    /\ UNCHANGED <<plans, ids, userRows, form>>

\* ---------------------------------------------------------------- sections
\* GET /days/:dayId/sections, getDayIfOwned
GetSectionsCheck(p, u, dayId) ==
    /\ pc[p] = "idle"
    /\ LET q == [op |-> "GET /days/:dayId/sections", user |-> u, id |-> dayId] IN
       IF getDayIfOwned(dayId, u) = {}
       THEN Reply(p, Err(404, "Day not found"), q)
       ELSE Await(p, "getSections.findMany", q)
    /\ UNCHANGED <<store, ids, form>>

\* GET /days/:dayId/sections, prisma.section.findMany ordered by sectionOrder
GetSectionsFind(p) ==
    /\ pc[p] = "getSections.findMany"
    /\ \E rows \in Ascending({s \in sections : s.dayId = req[p].id}, "sectionOrder") :
          Reply(p, Ok(200, rows), req[p])
    /\ UNCHANGED <<store, ids, form>>


\* --------------------------------------------------------------- exercises
\* GET /sections/:sectionId/exercises, getSectionIfOwned
GetExercisesCheck(p, u, sectionId) ==
    /\ pc[p] = "idle"
    /\ LET q == [op |-> "GET /sections/:sectionId/exercises", user |-> u,
                 id |-> sectionId] IN
       IF getSectionIfOwned(sectionId, u) = {}
       THEN Reply(p, Err(404, "Section not found"), q)
       ELSE Await(p, "getExercises.findMany", q)
    /\ UNCHANGED <<store, ids, form>>

\* GET /sections/:sectionId/exercises, prisma.exercise.findMany by exerciseOrder
GetExercisesFind(p) ==
    /\ pc[p] = "getExercises.findMany"
    /\ \E rows \in Ascending({e \in exercises : e.sectionId = req[p].id}, "exerciseOrder") :
          Reply(p, Ok(200, rows), req[p])
    /\ UNCHANGED <<store, ids, form>>

\* GET /exercises/:exerciseId
GetExercise(p, u, exerciseId) ==
    /\ pc[p] = "idle"
    /\ LET q == [op |-> "GET /exercises/:exerciseId", user |-> u, id |-> exerciseId]
           ex == getExerciseIfOwned(exerciseId, u) IN
       IF ex = {}
       THEN Reply(p, Err(404, "Exercise not found"), q)
       ELSE Reply(p, Ok(200, <<Val(ex)>>), q)
    /\ UNCHANGED <<store, ids, form>>

\* The validation of POST /sections/:sectionId/exercises: the error of the
\* first failing check, "" when the body passes.
ValidateExercise(body) ==
    IF ~Truthy(OptTrim(body.name)) THEN "Exercise name required"
    ELSE IF body.mode \notin {Some("reps"), Some("time")}
    THEN "Mode must be 'reps' or 'time'"
    ELSE IF body.mode = Some("reps") /\ (body.sets \in {None, Some(0)} \/ Floor(body.sets) < 1)
    THEN "Sets required"
    ELSE IF body.mode = Some("reps") /\ ~Truthy(OptTrim(body.reps))
    THEN "Reps required"
    ELSE IF body.mode = Some("time")
            /\ (body.timeValue \in {None, Some(0)} \/ Floor(body.timeValue) < 1)
    THEN "Time value required"
    ELSE IF body.mode = Some("time") /\ body.timeUnit \notin {Some("sec"), Some("min"), Some("hour")}
    THEN "Invalid time unit"
    ELSE ""

\* POST /sections/:sectionId/exercises, getSectionIfOwned and the validation
PostExerciseCheck(p, u, sectionId, body) ==
    /\ pc[p] = "idle"
    /\ LET q == [op |-> "POST /sections/:sectionId/exercises", user |-> u,
                 id |-> sectionId, body |-> body, nextOrder |-> 0] IN
       IF getSectionIfOwned(sectionId, u) = {}
       THEN Reply(p, Err(404, "Section not found"), q)
       ELSE IF ValidateExercise(body) # ""
       THEN Reply(p, Err(400, ValidateExercise(body)), q)
       ELSE Await(p, "postExercise.findFirst", q)
    /\ UNCHANGED <<store, ids, form>>

\* The next order taken over the exercises of every section.
NextExerciseOrderAnySection(sectionId) ==
    LET orders == {e.exerciseOrder : e \in exercises} IN
    (IF orders = {} THEN 0 ELSE SetMax(orders)) + 1

\* nextOrder = (last?.exerciseOrder ?? 0) + 1 over the exercises of the section
NextExerciseOrder(sectionId) ==
    LET orders == {e.exerciseOrder : e \in {e \in exercises : e.sectionId = sectionId}} IN
    (IF orders = {} THEN 0 ELSE SetMax(orders)) + 1

\* POST /sections/:sectionId/exercises, prisma.exercise.findFirst of the highest order
PostExerciseReadMax(p) ==
    /\ pc[p] = "postExercise.findFirst"
    /\ Await(p, "postExercise.create",
             [req[p] EXCEPT !.nextOrder = NextExerciseOrder(req[p].id)])
    /\ UNCHANGED <<store, ids, form>>

\* The data with every field of the body stored, whatever the mode.
ExerciseDataAllFields(id, sectionId, body, nextOrder) ==
    [id |-> id, sectionId |-> sectionId, name |-> Trim(Val(body.name)),
     mode |-> Val(body.mode), exerciseOrder |-> nextOrder,
     sets |-> body.sets, reps |-> OptTrim(body.reps),
     timeValue |-> body.timeValue, timeUnit |-> body.timeUnit]

\* The data of prisma.exercise.create: the fields of the other mode are null.
ExerciseData(id, sectionId, body, nextOrder) ==
    LET mode == Val(body.mode) IN
    [id |-> id, sectionId |-> sectionId, name |-> Trim(Val(body.name)), mode |-> mode,
     exerciseOrder |-> nextOrder,
     sets |-> IF mode = "reps" THEN body.sets ELSE None,
     reps |-> IF mode = "reps" THEN OptTrim(body.reps) ELSE None,
     timeValue |-> IF mode = "time" THEN body.timeValue ELSE None,
     timeUnit |-> IF mode = "time" THEN body.timeUnit ELSE None]

\* The data fits the Exercise columns: sets and timeValue are integer columns
\* (or null), and Prisma rejects any other number before it writes.
FitsColumns(data) ==
    /\ data.sets # None => IsInteger(data.sets)
    /\ data.timeValue # None => IsInteger(data.timeValue)

\* POST /sections/:sectionId/exercises, prisma.exercise.create
PostExerciseCreate(p) ==
    /\ pc[p] = "postExercise.create"
    /\ IF \/ SectionById(req[p].id) = {}
          \/ ~FitsColumns(ExerciseData(0, req[p].id, req[p].body, req[p].nextOrder))
       THEN /\ Throw(p)
            /\ UNCHANGED <<exercises, nextExerciseId>>
       ELSE /\ LET created == ExerciseData(nextExerciseId + 1, req[p].id, req[p].body,
                                           req[p].nextOrder) IN
               /\ exercises' = exercises \cup {created}
               /\ nextExerciseId' = nextExerciseId + 1
               /\ Reply(p, Ok(201, <<created>>), req[p])
    /\ UNCHANGED <<plans, days, sections, nextPlanId, nextDayId, userRows, form>>

\* PATCH /exercises/:exerciseId, getExerciseIfOwned
PatchExerciseCheck(p, u, exerciseId, body) ==
    /\ pc[p] = "idle"
    /\ LET q == [op |-> "PATCH /exercises/:exerciseId", user |-> u, id |-> exerciseId,
                 body |-> body] IN
       IF getExerciseIfOwned(exerciseId, u) = {}
       THEN Reply(p, Err(404, "Exercise not found"), q)
       ELSE Await(p, "patchExercise.update", q)
    /\ UNCHANGED <<store, ids, form>>

\* The columns of Exercise that `data` can set directly.
ExerciseColumns ==
    {"sectionId", "name", "mode", "exerciseOrder", "sets", "reps", "timeValue", "timeUnit"}

\* The row after prisma.exercise.update({ data: body }): every column the
\* body names takes the body's value, every other column keeps its value.
ApplyExerciseData(row, body) ==
    [f \in DOMAIN row |->
        IF f \in DOMAIN body /\ f \in ExerciseColumns THEN body[f] ELSE row[f]]

\* The Section table after the nested write `section: { update: {...} }` of
\* the body, which Prisma applies to the section the exercise is connected to.
ApplyNestedSection(row, body) ==
    IF "section" \notin DOMAIN body THEN sections
    ELSE {IF s.id = row.sectionId
          THEN [s EXCEPT !.sectionOrder = body.section.update.sectionOrder]
          ELSE s : s \in sections}

\* PATCH /exercises/:exerciseId, prisma.exercise.update({ data: body })
PatchExerciseUpdate(p) ==
    /\ pc[p] = "patchExercise.update"
    /\ LET body == req[p].body IN
       IF \/ ExerciseById(req[p].id) = {}
          \/ ("sectionId" \in DOMAIN body /\ SectionById(body.sectionId) = {})
          \/ ~FitsColumns(ApplyExerciseData(Val(ExerciseById(req[p].id)), body))
       THEN /\ Throw(p)
            /\ UNCHANGED <<sections, exercises>>
       ELSE LET old == Val(ExerciseById(req[p].id))
                updated == ApplyExerciseData(old, body) IN
            /\ exercises' = (exercises \ {old}) \cup {updated}
            /\ sections' = ApplyNestedSection(old, body)
            /\ Reply(p, Ok(200, <<updated>>), req[p])
    /\ UNCHANGED <<plans, days, ids, userRows, form>>

\* DELETE /exercises/:exerciseId, getExerciseIfOwned
DeleteExerciseCheck(p, u, exerciseId) ==
    /\ pc[p] = "idle"
    /\ LET q == [op |-> "DELETE /exercises/:exerciseId", user |-> u, id |-> exerciseId] IN
       IF getExerciseIfOwned(exerciseId, u) = {}
       THEN Reply(p, Err(404, "Exercise not found"), q)
       ELSE Await(p, "deleteExercise.delete", q)
    /\ UNCHANGED <<store, ids, form>>

\* A delete that closes the gap it leaves: the later Exercises of the
\* Section move up by one.
DeleteExerciseRenumber(p) ==
    /\ pc[p] = "deleteExercise.delete"
    /\ IF ExerciseById(req[p].id) = {}
       THEN /\ Throw(p)
            /\ UNCHANGED exercises
       ELSE LET gone == Val(ExerciseById(req[p].id)) IN
            /\ exercises' = {IF e.sectionId = gone.sectionId
                                /\ e.exerciseOrder > gone.exerciseOrder
                             THEN [e EXCEPT !.exerciseOrder = e.exerciseOrder - 1]
                             ELSE e : e \in exercises \ {gone}}
            /\ Reply(p, Ok(204, <<>>), req[p])
    /\ UNCHANGED <<plans, days, sections, ids, userRows, form>>

\* DELETE /exercises/:exerciseId, prisma.exercise.delete
DeleteExerciseDelete(p) ==
    /\ pc[p] = "deleteExercise.delete"
    /\ IF ExerciseById(req[p].id) = {}
       THEN /\ Throw(p)
            /\ UNCHANGED exercises
       ELSE /\ exercises' = exercises \ ExerciseById(req[p].id)
            /\ Reply(p, Ok(204, <<>>), req[p])
    /\ UNCHANGED <<plans, days, sections, ids, userRows, form>>


\* ------------------------------------------------------------ registration
UpperCase == <<"A", "B", "C", "D", "E", "F", "G", "H", "I", "J", "K", "L", "M",
               "N", "O", "P", "Q", "R", "S", "T", "U", "V", "W", "X", "Y", "Z">>
LowerCase == <<"a", "b", "c", "d", "e", "f", "g", "h", "i", "j", "k", "l", "m",
               "n", "o", "p", "q", "r", "s", "t", "u", "v", "w", "x", "y", "z">>

\* String.prototype.toLowerCase
toLowerCase(s) ==
    [i \in 1..Len(s) |->
        IF \E k \in 1..26 : UpperCase[k] = s[i]
        THEN LowerCase[CHOOSE k \in 1..26 : UpperCase[k] = s[i]]
        ELSE s[i]]

\* prisma.user.findUnique({ where: { email } })
findUserByEmail(email) == {r \in userRows : r.email = email}

\* bcrypt.hash(password, 10): the hash carries the salt drawn for it.
bcryptHash(password, salt) == <<"$", salt, "$">> \o password
Salts == {"x", "y"}

\* The id of the next User row; the model has the user ids of Users.
NewUserId == CHOOSE u \in Users : \A r \in userRows : r.id # u

\* POST /auth/register: the checks on the body and the lookup of the
\* normalized email.  email and password are None when the body gives them no
\* string value.
RegisterCheck(p, email, password) ==
    /\ pc[p] = "idle"
    /\ LET q == [op |-> "POST /auth/register", email |-> email,
                 password |-> password, emailNorm |-> <<>>, hash |-> <<>>] IN
       IF email = None \/ password = None
       THEN Reply(p, Err(400, "Email and password required"), q)
       ELSE LET emailNorm == toLowerCase(Trim(Val(email))) IN
            IF emailNorm = <<>> \/ Trim(Val(password)) = <<>>
            THEN Reply(p, Err(400, "Email and password required"), q)
            ELSE IF findUserByEmail(emailNorm) # {}
            THEN Reply(p, Err(400, "Email already used"), q)
            ELSE Await(p, "register.hash", [q EXCEPT !.emailNorm = emailNorm])
    /\ UNCHANGED <<store, ids, form>>

\* POST /auth/register, bcrypt.hash
RegisterHash(p) ==
    /\ pc[p] = "register.hash"
    /\ \E salt \in Salts :
          Await(p, "register.create",
                [req[p] EXCEPT !.hash = bcryptHash(Val(req[p].password), salt)])
    /\ UNCHANGED <<store, ids, form>>

\* The User row of a request and the body of its 200 answer.
NewUser(q) == [id |-> NewUserId, email |-> q.emailNorm, password |-> q.hash]
Registered(user) ==
    Ok(200, <<[token |-> signToken(user.id), id |-> user.id, email |-> user.email]>>)

\* A User table without the unique index on email: the create always inserts.
RegisterCreateUnconstrained(p) ==
    /\ pc[p] = "register.create"
    /\ Cardinality(userRows) < Cardinality(Users)
    /\ userRows' = userRows \cup {NewUser(req[p])}
    /\ Reply(p, Registered(NewUser(req[p])), req[p])
    /\ UNCHANGED <<plans, days, sections, exercises, ids, form>>

\* POST /auth/register, prisma.user.create.  email is a unique column (the
\* handler looks rows up with findUnique on it), so the create rejects when a
\* row with the email has come into the table since the lookup.
RegisterCreate(p) ==
    /\ pc[p] = "register.create"
    /\ IF findUserByEmail(req[p].emailNorm) # {}
       THEN /\ Throw(p)
            /\ UNCHANGED userRows
       ELSE /\ Cardinality(userRows) < Cardinality(Users)
            /\ userRows' = userRows \cup {NewUser(req[p])}
            /\ Reply(p, Registered(NewUser(req[p])), req[p])
    /\ UNCHANGED <<plans, days, sections, exercises, ids, form>>


\* ------------------------------------------------- the client's exercise form
\* Number(valueStr) yields a JS number: {n} the integer n, {n, n + 1} a number
\* strictly between n and n + 1, and NaN; NaN is {} (JSON carries it as null).
NaN == {}
Ceil(v) == CHOOSE x \in v : \A w \in v : x >= w
IsDigit(c) == c \in {"0", "1", "2", "3", "4", "5", "6", "7", "8", "9"}
DigitValue(c) == CHOOSE d \in 0..9 : Digit(d) = c

\* The integer a run of decimal digits denotes, 0 for the empty run.
RECURSIVE IntOf(_)
IntOf(ds) ==
    IF ds = <<>> THEN 0
    ELSE 10 * IntOf(SubSeq(ds, 1, Len(ds) - 1)) + DigitValue(ds[Len(ds)])

\* Number(string) for decimal literals: white space around the text is
\* dropped, the empty text is 0, an optional sign, digits with an optional
\* fraction; any other text is NaN.
Number(valueStr) ==
    LET t == Trim(valueStr)
        signed == t # <<>> /\ Head(t) \in {"-", "+"}
        rest == IF signed THEN Tail(t) ELSE t
        parts == Split(rest, ".")
        whole == parts[1]
        fraction == IF Len(parts) = 2 THEN parts[2] ELSE <<>>
        wellFormed == /\ Len(parts) <= 2
                      /\ Len(whole) + Len(fraction) >= 1
                      /\ \A i \in 1..Len(whole) : IsDigit(whole[i])
                      /\ \A i \in 1..Len(fraction) : IsDigit(fraction[i])
        magnitude == IF \E i \in 1..Len(fraction) : fraction[i] # "0"
                     THEN Between(IntOf(whole))
                     ELSE {IntOf(whole)}
    IN  IF t = <<>> THEN {0}
        ELSE IF ~wellFormed THEN NaN
        ELSE IF signed /\ Head(t) = "-" THEN {0 - x : x \in magnitude}
        ELSE magnitude

\* Number.isFinite(v), and v < k, v > k for an integer k; every comparison
\* with NaN is false.
IsFinite(v) == v # NaN
LessThan(v, k) == v # NaN /\ Floor(v) < k
GreaterThan(v, k) == v # NaN /\ Ceil(v) > k

\* validateTime without the Number.isFinite test.
validateTimeUnguarded(valueStr, unit) ==
    LET v == Number(valueStr) IN
    IF LessThan(v, 1) THEN Some("Time must be at least 1")
    ELSE IF unit = "sec" /\ GreaterThan(v, 59) THEN Some("Seconds must be 1-59")
    ELSE IF unit = "min" /\ GreaterThan(v, 59) THEN Some("Minutes must be 1-59")
    ELSE IF unit = "hour" /\ GreaterThan(v, 12) THEN Some("Hours must be <= 12")
    ELSE None

\* validateTime(valueStr, unit): the error text, None for null.
validateTime(valueStr, unit) ==
    LET v == Number(valueStr) IN
    IF ~IsFinite(v) \/ LessThan(v, 1) THEN Some("Time must be at least 1")
    ELSE IF unit = "sec" /\ GreaterThan(v, 59) THEN Some("Seconds must be 1-59")
    ELSE IF unit = "min" /\ GreaterThan(v, 59) THEN Some("Minutes must be 1-59")
    ELSE IF unit = "hour" /\ GreaterThan(v, 12) THEN Some("Hours must be <= 12")
    ELSE None

\* The screen is opened from the Day screen.
OpenForm(isEdit) ==
    /\ ~form.open
    /\ form' = MountedForm(isEdit)
    /\ UNCHANGED <<store, ids, pc, req, resp, header>>

\* The user changes one field: onChangeText of an input, onPress of a
\* mode or unit selector.
SetField(field, value) ==
    /\ form.open
    /\ form' = [form EXCEPT ![field] = value]
    /\ UNCHANGED <<store, ids, pc, req, resp, header>>

\* What save() does with the form: the alert it shows (None: none) and the
\* request it issues (None: none).
SaveOutcome(f) ==
    LET trimmed == Trim(f.name)
        setsNum == Number(f.sets)
        err == validateTime(f.timeValue, f.timeUnit)
        route == IF f.isEdit THEN "PATCH /exercises/:exerciseId"
                 ELSE "POST /sections/:sectionId/exercises"
        Alerted(text) == [alert |-> Some(text), request |-> None]
        Issued(payload) == [alert |-> None,
                            request |-> Some([op |-> route, payload |-> payload])]
    IN  IF trimmed = <<>> THEN Alerted("Exercise name is required.")
        ELSE IF f.mode = "reps"
        THEN IF ~IsFinite(setsNum) \/ LessThan(setsNum, 1)
             THEN Alerted("Sets must be 1+.")
             ELSE IF Trim(f.reps) = <<>> THEN Alerted("Reps is required.")
             ELSE Issued([name |-> trimmed, mode |-> f.mode, sets |-> setsNum,
                          reps |-> Some(Trim(f.reps)),
                          timeValue |-> None, timeUnit |-> None])
        ELSE IF err # None THEN Alerted(Val(err))
             ELSE Issued([name |-> trimmed, mode |-> f.mode, sets |-> None,
                          reps |-> None, timeValue |-> Number(f.timeValue),
                          timeUnit |-> Some(f.timeUnit)])

\* save(), up to the alert of a failed validation or the api call; the
\* button is disabled while a save is under way.
Save ==
    /\ form.open /\ ~form.saving
    /\ LET out == SaveOutcome(form) IN
       form' = [form EXCEPT !.alert = out.alert, !.request = out.request,
                            !.saving = out.request # None]
    /\ UNCHANGED <<store, ids, pc, req, resp, header>>

\* save(), after the api call: the screen goes back when the call succeeded
\* and shows the error when it failed.
SaveSettled(ok) ==
    /\ form.open /\ form.saving
    /\ form' = IF ok THEN [form EXCEPT !.open = FALSE, !.saving = FALSE]
               ELSE [form EXCEPT !.alert = Some("Failed to save exercise"),
                                 !.saving = FALSE]
    /\ UNCHANGED <<store, ids, pc, req, resp, header>>


\* The table a request's path id names.
OpsOnPlan ==
    {"PATCH /plans/:id", "DELETE /plans/:id", "GET /plans/:planId/days",
     "POST /plans/:planId/days"}
OpsOnDay == {"PATCH /days/:dayId", "DELETE /days/:dayId", "GET /days/:dayId/sections"}
OpsOnSection ==
    {"GET /sections/:sectionId/exercises", "POST /sections/:sectionId/exercises"}
OpsOnExercise ==
    {"GET /exercises/:exerciseId", "PATCH /exercises/:exerciseId",
     "DELETE /exercises/:exerciseId"}

\* Every route behind requireAuth.
ProtectedOps ==
    {"GET /plans", "POST /plans"} \cup OpsOnPlan \cup OpsOnDay \cup OpsOnSection
        \cup OpsOnExercise

\* ------------------------------------------------------------------ inputs
Body(name, mode, sets, reps, timeValue, timeUnit) ==
    [name |-> name, mode |-> mode, sets |-> sets, reps |-> reps,
     timeValue |-> timeValue, timeUnit |-> timeUnit]

\* Bodies of POST /sections/:sectionId/exercises: a reps exercise and a time
\* exercise, each carrying the fields of the other mode as well.
RepsBody ==
    Body(Some(<<"S", " ">>), Some("reps"), Some(3), Some(<<"1", "0", " ">>),
         Some(30), Some("sec"))
TimeBody ==
    Body(Some(<<"S">>), Some("time"), Some(3), Some(<<"1", "0">>), Some(30), Some("sec"))
NoNameBody ==
    Body(Some(<<" ">>), Some("reps"), Some(3), Some(<<"1", "0">>), None, None)

\* Time bodies at the edge of the hour range, and bodies that fail one check
\* of the validation each.
Hour12Body == Body(Some(<<"S">>), Some("time"), None, None, Some(12), Some("hour"))
Hour13Body == Body(Some(<<"S">>), Some("time"), None, None, Some(13), Some("hour"))
NoModeBody == Body(Some(<<"S">>), None, Some(3), Some(<<"1", "0">>), None, None)
NoSetsBody == Body(Some(<<"S">>), Some("reps"), Some(0), Some(<<"1", "0">>), None, None)
HalfSetsBody == Body(Some(<<"S">>), Some("reps"), Between(1), Some(<<"1", "0">>), None, None)
BlankRepsBody == Body(Some(<<"S">>), Some("reps"), Some(3), Some(<<" ">>), None, None)
NoTimeBody == Body(Some(<<"S">>), Some("time"), None, None, None, Some("sec"))
DayUnitBody == Body(Some(<<"S">>), Some("time"), None, None, Some(30), Some("day"))

BlankTitle == Some(<<" ">>)
TitleA == Some(<<" ", "A">>)

\* The requests in flight that will insert a row when they reach their create.
Pending(at) == Cardinality({p \in Procs : pc[p] \in at})

\* -------------------------------------------------------------------- next
\* One step of the handler running in slot p, or the arrival of a request
\* there.  inp gives the request bodies and how many rows of each table the
\* requests may create in all; the user a handler runs for is the one
\* requireAuth admits for the header presented to the slot (inp.auth) or,
\* where the headers are left out, any of the authenticated users inp.users.
Handler(p, inp) ==
    LET users == IF inp.auth THEN AuthedAs(p) ELSE inp.users
        planIds == 1..inp.maxPlans
        dayIds == 1..inp.maxDays
        sectionIds == 1..(3 * inp.maxDays)
        exerciseIds == 1..inp.maxExercises
    IN
    \/ \E u \in users : GetPlans(p, u)
    \/ \E u \in users, title \in inp.titles :
          /\ Truthy(OptTrim(title)) => nextPlanId < inp.maxPlans
          /\ PostPlans(p, u, title)
    \/ \E u \in users, id \in planIds, title \in inp.titles :
          PatchPlanCheck(p, u, id, title)
    \/ PatchPlanUpdate(p)
    \/ \E u \in users, id \in planIds : DeletePlanCheck(p, u, id)
    \/ DeletePlanDelete(p)
    \/ \E u \in users, id \in planIds : GetDaysCheck(p, u, id)
    \/ GetDaysFind(p)
    \/ \E u \in users, id \in planIds, name \in inp.dayNames :
          /\ nextDayId + Pending({"postDay.findFirst", "postDay.create"}) < inp.maxDays
          /\ PostDayCheck(p, u, id, name)
    \/ PostDayReadMax(p)
    \/ PostDayCreate(p)
    \/ \E u \in users, id \in dayIds, name \in inp.dayNames :
          PatchDayCheck(p, u, id, name)
    \/ PatchDayUpdate(p)
    \/ \E u \in users, id \in dayIds : DeleteDayCheck(p, u, id)
    \/ DeleteDayDelete(p)
    \/ \E u \in users, id \in dayIds : GetSectionsCheck(p, u, id)
    \/ GetSectionsFind(p)
    \/ \E u \in users, id \in sectionIds : GetExercisesCheck(p, u, id)
    \/ GetExercisesFind(p)
    \/ \E u \in users, id \in exerciseIds : GetExercise(p, u, id)
    \/ \E u \in users, id \in sectionIds, body \in inp.bodies :
          /\ nextExerciseId + Pending({"postExercise.findFirst", "postExercise.create"})
                < inp.maxExercises
          /\ PostExerciseCheck(p, u, id, body)
    \/ PostExerciseReadMax(p)
    \/ PostExerciseCreate(p)
    \/ \E u \in users, id \in exerciseIds, body \in inp.patches :
          PatchExerciseCheck(p, u, id, body)
    \/ PatchExerciseUpdate(p)
    \/ \E u \in users, id \in exerciseIds : DeleteExerciseCheck(p, u, id)
    \/ DeleteExerciseDelete(p)
    \/ Release(p)

\* Two users, requests one at a time (a request is answered before the next
\* one arrives): who can reach what.
OwnInputs ==
    [auth |-> FALSE, users |-> Users, maxPlans |-> MaxPlans, maxDays |-> MaxDays, maxExercises |-> Single,
     titles |-> {BlankTitle, TitleA},
     dayNames |-> {None, Some(<<"L", " ">>)},
     bodies |-> {RepsBody, TimeBody, NoNameBody},
     patches |-> {[name |-> <<"T">>]} \cup {[sectionId |-> s] : s \in 1..(3 * MaxDays)}]

Next == Handler(1, OwnInputs)

Spec == Init /\ [][Next]_vars

\* One user, requests one at a time: how the order columns are assigned as
\* days and exercises come and go.
OrdInputs ==
    [auth |-> FALSE, users |-> {"u1"}, maxPlans |-> Single, maxDays |-> MaxDays,
     maxExercises |-> MaxExercises,
     titles |-> {TitleA},
     dayNames |-> {None, Some(<<" ">>), Some(<<"L", " ">>)},
     bodies |-> {RepsBody},
     patches |-> {[exerciseOrder |-> 2]}]

NextOrd == Handler(1, OrdInputs)

SpecOrd == Init /\ [][NextOrd]_vars

\* The payloads the client's edit form sends to PATCH /exercises/:exerciseId.
EditAsReps ==
    [name |-> <<"S">>, mode |-> "reps", sets |-> Some(3), reps |-> Some(<<"1", "0">>)]
EditAsTime ==
    [name |-> <<"S">>, mode |-> "time", timeValue |-> Some(30), timeUnit |-> Some("sec")]

\* One user, one day, requests one at a time: what the fields of an exercise
\* and the sections of its day can become.
DataInputs ==
    [auth |-> FALSE, users |-> {"u1"}, maxPlans |-> Single, maxDays |-> Single, maxExercises |-> Single,
     titles |-> {TitleA},
     dayNames |-> {None, Some(<<"L", " ">>)},
     bodies |-> {RepsBody, TimeBody, NoNameBody, Hour12Body, Hour13Body, NoModeBody,
                 NoSetsBody, HalfSetsBody, BlankRepsBody, NoTimeBody, DayUnitBody},
     patches |-> {EditAsReps, EditAsTime, [sets |-> None],
                  [section |-> [update |-> [sectionOrder |-> 3]]]}]

NextData == Handler(1, DataInputs)

SpecData == Init /\ [][NextData]_vars

\* One user, the creations of several requests in flight at once, each
\* await of a handler a step of its own.
NextCreate ==
    \E p \in Procs :
        \/ /\ nextPlanId < Single
           /\ PostPlans(p, "u1", TitleA)
        \/ /\ nextDayId + Pending({"postDay.findFirst", "postDay.create"}) < MaxDays
           /\ PostDayCheck(p, "u1", 1, None)
        \/ PostDayReadMax(p)
        \/ PostDayCreate(p)
        \/ \E id \in 1..(3 * MaxDays) :
              /\ nextExerciseId + Pending({"postExercise.findFirst", "postExercise.create"})
                    < MaxExercises
              /\ PostExerciseCheck(p, "u1", id, RepsBody)
        \/ PostExerciseReadMax(p)
        \/ PostExerciseCreate(p)
        \/ Release(p)

SpecCreate == Init /\ [][NextCreate]_vars

\* "Bearer <token>"
Bearer(token) == <<"B", "e", "a", "r", "e", "r", " ">> \o token

\* A token the app has not signed, carrying the payload of user u1.
Forged == <<"f", "1">>

\* Authorization headers: none, the scheme alone, the scheme with a blank
\* and nothing after it, a forged token, and the tokens of the two users.
Headers ==
    {None, Some(<<"B", "e", "a", "r", "e", "r">>), Some(Bearer(<<>>)), Some(Bearer(Forged)),
     Some(Bearer(signToken("u1"))), Some(Bearer(signToken("u2")))}

\* One plan, one day, one exercise; the user of a request is the one its
\* Authorization header authenticates.
AuthInputs ==
    [auth |-> TRUE, users |-> {},
     maxPlans |-> Single, maxDays |-> Single, maxExercises |-> Single,
     titles |-> {TitleA},
     dayNames |-> {None, Some(<<"L", " ">>)},
     bodies |-> {RepsBody},
     patches |-> {[name |-> <<"T">>]}]

\* Requests with and without a valid Authorization header, one at a time.
NextAuth ==
    \/ \E hdr \in Headers : Present(1, hdr)
    \/ \E op \in ProtectedOps : Unauthenticated(1, op)
    \/ Handler(1, AuthInputs)

SpecAuth == Init /\ [][NextAuth]_vars

\* One user, creations and deletions of several requests in flight at once:
\* a row may vanish between a handler's ownership check and its write.
NextDelete ==
    \E p \in Procs :
        \/ /\ nextPlanId < Single
           /\ PostPlans(p, "u1", TitleA)
        \/ /\ nextDayId + Pending({"postDay.findFirst", "postDay.create"}) < MaxDays
           /\ PostDayCheck(p, "u1", 1, None)
        \/ PostDayReadMax(p)
        \/ PostDayCreate(p)
        \/ \E id \in 1..(3 * MaxDays) :
              /\ nextExerciseId + Pending({"postExercise.findFirst", "postExercise.create"})
                    < Single
              /\ PostExerciseCheck(p, "u1", id, RepsBody)
        \/ PostExerciseReadMax(p)
        \/ PostExerciseCreate(p)
        \/ DeletePlanCheck(p, "u1", 1)
        \/ DeletePlanDelete(p)
        \/ \E id \in 1..MaxDays : DeleteDayCheck(p, "u1", id)
        \/ DeleteDayDelete(p)
        \/ DeleteExerciseCheck(p, "u1", 1)
        \/ DeleteExerciseDelete(p)
        \/ Release(p)

SpecDelete == Init /\ [][NextDelete]_vars

\* One user, the days of a plan created and deleted by several requests in
\* flight at once, with a store that may fail at any Prisma call.
NextFail ==
    \E p \in Procs :
        \/ /\ nextPlanId < Single
           /\ PostPlans(p, "u1", TitleA)
        \/ /\ nextDayId + Pending({"postDay.findFirst", "postDay.create"}) < MaxDays
           /\ PostDayCheck(p, "u1", 1, None)
        \/ PostDayStoreDown(p, "u1", 1, None)
        \/ PostDayReadMax(p)
        \/ PostDayCreate(p)
        \/ DeletePlanCheck(p, "u1", 1)
        \/ DeletePlanDelete(p)
        \/ \E id \in 1..MaxDays : DeleteDayCheck(p, "u1", id)
        \/ DeleteDayDelete(p)
        \/ StoreFailure(p)
        \/ Release(p)

SpecFail == Init /\ [][NextFail]_vars

\* The email and password values of register requests: absent, blank, and
\* two addresses, one of them also in upper case with a space after it.
Emails == {None, Some(<<" ">>), Some(<<"a">>), Some(<<"A", " ">>), Some(<<"b">>)}
Passwords == {None, Some(<<" ">>), Some(<<"p">>)}

\* Registrations, two requests in flight at once.
NextRegister ==
    \E p \in Procs :
        \/ \E email \in Emails, password \in Passwords : RegisterCheck(p, email, password)
        \/ RegisterHash(p)
        \/ RegisterCreate(p)
        \/ Release(p)

SpecRegister == Init /\ [][NextRegister]_vars

\* What the user may type as a name, as sets, as reps and as a time value.
FormNames == {<<>>, <<"S", " ">>}
FormSets == {<<"3">>, <<"0">>}
FormReps == {<<"1", "2">>, <<" ">>}
TimeValues ==
    {<<>>, <<"a">>, <<"0">>, <<"0", ".", "5">>, <<"-", "1">>, <<"1">>, <<" ", "1", " ">>,
     <<"1", ".", "5">>, <<"1", "2">>, <<"1", "2", ".", "5">>, <<"1", "3">>,
     <<"5", "9">>, <<"5", "9", ".", "5">>, <<"6", "0">>}

\* The form being opened, filled in and saved.
NextForm ==
    \/ \E isEdit \in BOOLEAN : OpenForm(isEdit)
    \/ \E v \in FormNames : SetField("name", v)
    \/ \E v \in {"reps", "time"} : SetField("mode", v)
    \/ \E v \in FormSets : SetField("sets", v)
    \/ \E v \in FormReps : SetField("reps", v)
    \/ \E v \in TimeValues : SetField("timeValue", v)
    \/ \E v \in {"sec", "min", "hour"} : SetField("timeUnit", v)
    \/ Save
    \/ \E ok \in BOOLEAN : SaveSettled(ok)

SpecForm == Init /\ [][NextForm]_vars



\* ------------------------------------------------------------------ claims
\* The owner of the resource the request q names: the userId of its ancestor
\* Plan, {} when there is no such resource.
OwnerOfTarget(q) ==
    IF q.op \in OpsOnPlan THEN OwnerOfPlan(q.id)
    ELSE IF q.op \in OpsOnDay THEN OwnerOfDay(q.id)
    ELSE IF q.op \in OpsOnSection THEN OwnerOfSection(q.id)
    ELSE IF q.op \in OpsOnExercise THEN OwnerOfExercise(q.id)
    ELSE {}

\* The request q names a resource that exists and belongs to another user.
NamesForeign(q) == OwnerOfTarget(q) # {} /\ q.user \notin OwnerOfTarget(q)

BlankRename(q) ==
    \/ q.op = "PATCH /plans/:id" /\ ~Truthy(OptTrim(q.title))
    \/ q.op = "PATCH /days/:dayId" /\ ~Truthy(OptTrim(q.name))

DaysOf(planId) == {d \in days : d.planId = planId}
ExercisesOf(sectionId) == {e \in exercises : e.sectionId = sectionId}

\* C2: the exercises created by concurrent POST /sections/:sectionId/exercises
\* requests against one Section (no exercise is deleted) have distinct
\* exerciseOrder values without gaps: n exercises carry the orders 1..n.
C2_DistinctGaplessExerciseOrder ==
    \A s \in sections :
        {e.exerciseOrder : e \in ExercisesOf(s.id)} = 1..Cardinality(ExercisesOf(s.id))

\* C3: two POST /plans/:planId/days requests against one Plan never receive
\* the same dayOrder, however their steps interleave.
C3_DistinctDayOrder ==
    \A d1, d2 \in days :
        (d1.planId = d2.planId /\ d1.id # d2.id) => d1.dayOrder # d2.dayOrder

\* C4: the dayOrder values of one Plan are strictly increasing in creation
\* order and never reused.  Every Day of this specification is created in
\* the one Plan and Day ids count the creations, so the k-th Day created has
\* a dayOrder of at least k, also when earlier Days are gone, and of two
\* Days the one created later has the higher dayOrder.
C4_IncreasingNeverReused ==
    /\ \A d \in days : d.dayOrder >= d.id
    /\ \A d1, d2 \in days :
          (d1.planId = d2.planId /\ d1.id < d2.id) => d1.dayOrder < d2.dayOrder

\* The highest of a set of order values, 0 for no value.
Highest(S) == IF S = {} THEN 0 ELSE CHOOSE m \in S : \A x \in S : m >= x

\* C5: a newly created Day or Exercise carries one plus the highest order
\* value among the siblings that exist in its parent when the request reads
\* them (with requests one at a time: when the row is inserted), and 1 when
\* the parent has no children.
C5_OrderIsMaxPlusOne ==
    [][/\ \A d \in days' :
             d.id \notin {x.id : x \in days}
             => d.dayOrder = 1 + Highest({x.dayOrder : x \in DaysOf(d.planId)})
       /\ \A e \in exercises' :
             e.id \notin {x.id : x \in exercises}
             => e.exerciseOrder = 1 + Highest({x.exerciseOrder : x \in ExercisesOf(e.sectionId)})
      ]_vars

\* C5 witness: a Day was created next to a sibling, and an Exercise next to
\* a sibling whose order value had been set to 2.
C5_Witness ==
    /\ \E d1, d2 \in days :
          d1.planId = d2.planId /\ d1.id < d2.id /\ d2.dayOrder = 2
    /\ \E e1, e2 \in exercises :
          /\ e1.id < e2.id
          /\ e1.sectionId = e2.sectionId
          /\ e1.exerciseOrder = 2
          /\ e2.exerciseOrder = 3

\* C6: every Day has exactly 3 Sections, one of each type warmup, workout
\* and stretch, with sectionOrder 1, 2 and 3 respectively.
C6_ThreeSectionsInOrder ==
    \A d \in days :
        {<<s.type, s.sectionOrder>> : s \in SectionsOfDays({d.id})}
            = {<<"warmup", 1>>, <<"workout", 2>>, <<"stretch", 3>>}
        /\ Cardinality(SectionsOfDays({d.id})) = 3

\* The exercise has the fields of its mode and no others.
OneGroup(e) ==
    \/ /\ e.mode = "reps"
       /\ e.sets # None /\ e.reps # None
       /\ e.timeValue = None /\ e.timeUnit = None
    \/ /\ e.mode = "time"
       /\ e.timeValue # None /\ e.timeUnit # None
       /\ e.sets = None /\ e.reps = None

\* C7: every Exercise has exactly one of the two field groups populated, the
\* one its mode names: sets and reps for reps, timeValue and timeUnit for time.
C7_ExactlyOneGroup == \A e \in exercises : OneGroup(e)

\* C8: the Exercise a successful POST /sections/:sectionId/exercises stores
\* has the trimmed fields of the body's mode and null in the fields of the
\* other mode, whatever the body carried there, and a GET
\* /exercises/:exerciseId answered 200 returns the stored row as it is.
C8_CreatedThenRead ==
    \A p \in Procs :
        /\ (/\ pc[p] = "done"
            /\ req[p].op = "POST /sections/:sectionId/exercises"
            /\ resp[p].status = 201)
           => LET r == resp[p].rows[1]
                  b == req[p].body IN
              /\ r \in exercises
              /\ OneGroup(r)
              /\ r.mode = "reps"
                 => r.sets = b.sets /\ r.reps = Some(Trim(Val(b.reps)))
              /\ r.mode = "time"
                 => r.timeValue = b.timeValue /\ r.timeUnit = b.timeUnit
        /\ (/\ pc[p] = "done"
            /\ req[p].op = "GET /exercises/:exerciseId"
            /\ resp[p].status = 200)
           => /\ resp[p].rows = <<Val(ExerciseById(req[p].id))>>
              /\ req[p].user \in OwnerOfExercise(req[p].id)

\* C8 witness: the owner read an exercise created with mode reps, sets 3,
\* reps "10": sets=3, reps="10", timeValue=null, timeUnit=null.
C8_Witness ==
    /\ pc[1] = "done"
    /\ req[1].op = "GET /exercises/:exerciseId"
    /\ resp[1].status = 200
    /\ resp[1].rows[1].mode = "reps"
    /\ resp[1].rows[1].sets = Some(3)
    /\ resp[1].rows[1].reps = Some(<<"1", "0">>)
    /\ resp[1].rows[1].timeValue = None
    /\ resp[1].rows[1].timeUnit = None

\* The parent link of every row, by table and id.
ParentLinks ==
    {<<"Plan", pl.id, pl.userId>> : pl \in plans}
    \cup {<<"Day", d.id, d.planId>> : d \in days}
    \cup {<<"Section", s.id, s.dayId>> : s \in sections}
    \cup {<<"Exercise", e.id, e.sectionId>> : e \in exercises}

\* C9: no step changes the parent link of a row: a row that exists before
\* and after the step has the same userId, planId, dayId or sectionId.
C9_ParentNeverChanges ==
    [][\A old \in ParentLinks, new \in ParentLinks' :
          (old[1] = new[1] /\ old[2] = new[2]) => old[3] = new[3]]_vars

\* The rows reachable from the Plans of user v.
Subtree(v) ==
    LET ps == {pl \in plans : pl.userId = v}
        ds == DaysOfPlans({pl.id : pl \in ps})
        ss == SectionsOfDays({d.id : d \in ds})
    IN <<ps, ds, ss, ExercisesOfSections({s.id : s \in ss})>>

\* The user in whose name slot p takes its step.
Requester(p) == IF pc[p] = "idle" THEN req'[p].user ELSE req[p].user

\* C10: a step of a request authenticated as user u leaves the rows
\* reachable from the Plans of every other user v as they were.
C10_OthersSubtreeUntouched ==
    [][\A p \in Procs :
          (pc'[p] # pc[p] /\ pc[p] # "done")
          => \A v \in Users : v # Requester(p) => Subtree(v)' = Subtree(v)]_vars

\* The request q, naming a resource by its path id, comes from a user who does
\* not own such a resource: there is none, or it belongs to another user.
NotOwned(q) ==
    /\ q.op \in OpsOnPlan \cup OpsOnDay \cup OpsOnSection \cup OpsOnExercise
    /\ q.user \notin OwnerOfTarget(q)

\* The answer to a request of a user who does not own the resource it names,
\* as the request alone determines it.
AnswerToStranger(q) ==
    IF q.op = "PATCH /plans/:id" /\ ~Truthy(OptTrim(q.title)) THEN Err(400, "Title required")
    ELSE IF q.op = "PATCH /days/:dayId" /\ ~Truthy(OptTrim(q.name)) THEN Err(400, "Name required")
    ELSE IF q.op \in {"PATCH /plans/:id", "DELETE /plans/:id"} THEN Err(404, "Not found")
    ELSE IF q.op \in OpsOnPlan THEN Err(404, "Plan not found")
    ELSE IF q.op \in OpsOnDay THEN Err(404, "Day not found")
    ELSE IF q.op \in OpsOnSection THEN Err(404, "Section not found")
    ELSE Err(404, "Exercise not found")

\* C11: the answer (status and error body) to a request naming a resource
\* the requester does not own is a function of the request alone: it is the
\* same whether the resource exists and belongs to another user or does not
\* exist at all, and it is never 403.
C11_SameAnswerExistingOrNot ==
    [][\A p \in Procs :
          (pc[p] = "idle" /\ pc'[p] # "idle" /\ NotOwned(req'[p]))
          => /\ pc'[p] = "done"
             /\ resp'[p] = AnswerToStranger(req'[p])
             /\ resp'[p].status # 403]_vars

\* C11 witness: another user's DELETE of an existing day was answered as the
\* DELETE of a day that does not exist is, 404 "Day not found".
C11_Witness ==
    /\ pc[1] = "done"
    /\ req[1].op = "DELETE /days/:dayId"
    /\ NamesForeign(req[1])
    /\ resp[1] = Err(404, "Day not found")

\* Slot p's request is answered in this step.
Answered(p) == pc[p] # "done" /\ pc'[p] = "done"

\* C12: a DELETE /plans/:id is answered 204 only for a Plan that exists and
\* belongs to the requester, and the Plan is gone afterwards; a Plan id that
\* is gone never comes back; and a DELETE naming a Plan that does not exist
\* or is not the requester's is answered 404 with nothing changed.  So the
\* second of two deletes of one Plan is answered 404, never 204.
C12_DeleteOnceThenNotFound ==
    [][/\ \A p \in Procs :
             (Answered(p) /\ req'[p].op = "DELETE /plans/:id")
             => IF findPlanOwned(req'[p].id, req'[p].user) = {}
                THEN resp'[p] = Err(404, "Not found") /\ store' = store
                ELSE resp'[p].status = 204 /\ req'[p].id \notin {pl.id : pl \in plans'}
       /\ \A id \in 1..nextPlanId :
             id \notin {pl.id : pl \in plans} => id \notin {pl.id : pl \in plans'}
      ]_vars

\* C12 witness: a DELETE naming a Plan that had been created and deleted
\* was answered 404.
C12_Witness ==
    /\ pc[1] = "done"
    /\ req[1].op = "DELETE /plans/:id"
    /\ req[1].id <= nextPlanId
    /\ PlanById(req[1].id) = {}
    /\ resp[1].status = 404

\* Every Day references an existing Plan, every Section an existing Day and
\* every Exercise an existing Section.
Referential ==
    /\ \A d \in days : \E pl \in plans : pl.id = d.planId
    /\ \A s \in sections : \E d \in days : d.id = s.dayId
    /\ \A e \in exercises : \E s \in sections : s.id = e.sectionId

\* The ids of the Days, Sections and Exercises beneath Plan planId.
DayIdsBeneath(planId) == {d.id : d \in {x \in days : x.planId = planId}}
SectionIdsBeneath(planId) ==
    {s.id : s \in {x \in sections : x.dayId \in DayIdsBeneath(planId)}}
ExerciseIdsBeneath(planId) ==
    {e.id : e \in {x \in exercises : x.sectionId \in SectionIdsBeneath(planId)}}

\* C13: in every reachable state, whatever the interleaving of creations and
\* deletions, every Day references an existing Plan, every Section an
\* existing Day and every Exercise an existing Section; and when a DELETE
\* /plans/:id is answered 204, the Plan and every Day, Section and Exercise
\* that was beneath it are gone.
C13_CascadeAndIntegrity ==
    /\ []Referential
    /\ [][\A p \in Procs :
             (Answered(p) /\ req'[p].op = "DELETE /plans/:id" /\ resp'[p].status = 204)
             => /\ req'[p].id \notin {pl.id : pl \in plans'}
                /\ DayIdsBeneath(req'[p].id) \cap {d.id : d \in days'} = {}
                /\ SectionIdsBeneath(req'[p].id) \cap {s.id : s \in sections'} = {}
                /\ ExerciseIdsBeneath(req'[p].id) \cap {e.id : e \in exercises'} = {}
         ]_vars

\* C13 witness: a Plan under which a Day and an Exercise had been created
\* was deleted while another request, past its ownership check, was about to
\* create an Exercise in one of its Sections.
C13_Witness ==
    /\ pc[1] = "done"
    /\ req[1].op = "DELETE /plans/:id"
    /\ resp[1].status = 204
    /\ nextDayId >= 1
    /\ days = {} /\ sections = {} /\ exercises = {}
    /\ pc[2] = "postExercise.create"

\* C14: when a DELETE /days/:dayId is answered 204, the Day, its 3 Sections
\* and the Exercises in those Sections are removed and every other row is as
\* it was: no Plan, no other Day, none of their Sections and Exercises
\* changes or goes.
C14_DeleteDayRemovesItsSubtreeOnly ==
    [][\A p \in Procs :
          (Answered(p) /\ req'[p].op = "DELETE /days/:dayId" /\ resp'[p].status = 204)
          => LET gone == {s.id : s \in {x \in sections : x.dayId = req'[p].id}} IN
             /\ \E d \in days : d.id = req'[p].id
             /\ Cardinality(gone) = 3
             /\ plans' = plans
             /\ days' = {d \in days : d.id # req'[p].id}
             /\ sections' = {s \in sections : s.dayId # req'[p].id}
             /\ exercises' = {e \in exercises : e.sectionId \notin gone}
      ]_vars

\* C14 witness: a Day was deleted and the other Day of the Plan is there,
\* with an Exercise in one of its Sections.
C14_Witness ==
    /\ pc[1] = "done"
    /\ req[1].op = "DELETE /days/:dayId"
    /\ resp[1].status = 204
    /\ \E d \in days, s \in sections, e \in exercises :
          d.id # req[1].id /\ s.dayId = d.id /\ e.sectionId = s.id
    /\ Cardinality(exercises) < nextExerciseId

\* C15: a request answered 400 or 404 is answered in the first step of its
\* handler, before any step that writes, and that step leaves every table as
\* it was: the validation and the ownership check come before the first
\* write of the request.
C15_RejectedChangesNothing ==
    [][\A p \in Procs :
          (Answered(p) /\ resp'[p].status \in {400, 404})
          => pc[p] = "idle" /\ store' = store /\ ids' = ids]_vars

\* C15 witness: the POST of an Exercise with a blank name by the owner of
\* the Section was answered 400.
C15_Witness ==
    /\ pc[1] = "done"
    /\ req[1].op = "POST /sections/:sectionId/exercises"
    /\ req[1].user \in OwnerOfSection(req[1].id)
    /\ resp[1].status = 400

\* The headers without a verifiable token: no Authorization header, no
\* second space-separated token, or a token the app has not signed.
RejectedHeaders ==
    {None, Some(<<"B", "e", "a", "r", "e", "r">>), Some(Bearer(<<>>)), Some(Bearer(Forged))}

\* C16: a request whose Authorization header is absent, has no second
\* space-separated token, or carries a token that fails verification is
\* answered 401 in its first step, with no handler position entered and
\* nothing written; a request that is in or past a route handler carries the
\* token signed for the user the handler runs for.
C16_UnauthenticatedNeverEnters ==
    /\ [](\A p \in Procs :
             pc[p] # "idle"
             => IF header[p] \subseteq RejectedHeaders
                THEN pc[p] = "done" /\ resp[p].status = 401
                ELSE /\ resp[p].status # 401
                     /\ req[p].op \in ProtectedOps
                     /\ header[p] = {Some(Bearer(signToken(req[p].user)))})
    /\ [][\A p \in Procs :
             (Answered(p) /\ resp'[p].status = 401)
             => pc[p] = "idle" /\ store' = store /\ ids' = ids]_vars

\* C16 witness: with a Plan in the store, a request with a forged token was
\* answered 401 "Invalid token".
C16_Witness ==
    /\ pc[1] = "done"
    /\ header[1] = {Some(Bearer(Forged))}
    /\ resp[1] = Err(401, "Invalid token")
    /\ req[1].op = "DELETE /plans/:id"
    /\ plans # {}

\* The Days a step inserts.
NewDays == {d \in days' : d.id \notin {x.id : x \in days}}

\* C17: whatever Prisma call of POST /plans/:planId/days fails, the Day and
\* its three Sections are stored together or not at all: a step that
\* inserts a Day inserts its three Sections with it, no Section is inserted
\* without its Day, and a request that is not answered 201 has inserted
\* neither.
C17_DayAndSectionsAllOrNothing ==
    [][/\ \A d \in NewDays :
             /\ Cardinality({s \in sections' : s.dayId = d.id}) = 3
             /\ {s \in sections : s.dayId = d.id} = {}
       /\ \A s \in sections' \ sections : \E d \in NewDays : d.id = s.dayId
       /\ \A p \in Procs :
             (/\ Answered(p)
              /\ req'[p].op = "POST /plans/:planId/days"
              /\ resp'[p].status # 201)
             => days' = days /\ sections' = sections
      ]_vars

\* C17 witness: a POST /plans/:planId/days failed at its create, after the
\* read of the highest dayOrder, and the Plan is left without Day and Section.
C17_Witness ==
    /\ pc[1] = "done"
    /\ req[1].op = "POST /plans/:planId/days"
    /\ resp[1] \in Rejections
    /\ req[1].nextOrder = 1
    /\ plans # {}
    /\ days = {} /\ sections = {}

\* C18: a request whose Prisma call failed is answered, with the generic
\* server error and nothing of the error itself: no request ends without an
\* answer, and a 500 carries the bare status text.
C18_FailureIsGenericAnswer ==
    \A p \in Procs :
        pc[p] = "done"
        => /\ resp[p].status # 0
           /\ resp[p].status = 500 => resp[p].error = "Internal Server Error"

\* The time value is above what its unit allows: 59 for sec and min, 12 for hour.
OutOfRange(timeValue, timeUnit) ==
    \/ timeUnit \in {Some("sec"), Some("min")} /\ Floor(timeValue) > 59
    \/ timeUnit = Some("hour") /\ Floor(timeValue) > 12

\* C19: the server rejects a time-mode creation whose timeValue is above the
\* range of its timeUnit (59 for sec and min, 12 for hour) with 400 and
\* stores no such Exercise; hour 12 is accepted.
C19_TimeRangeEnforced ==
    /\ \A p \in Procs :
          (/\ pc[p] = "done"
           /\ req[p].op = "POST /sections/:sectionId/exercises"
           /\ req[p].user \in OwnerOfSection(req[p].id))
          => /\ req[p].body = Hour13Body => resp[p].status = 400
             /\ req[p].body = Hour12Body => resp[p].status = 201
    /\ \A e \in exercises :
          e.mode = "time" /\ e.timeValue # None => ~OutOfRange(e.timeValue, e.timeUnit)

\* The body passes every check the claim lists.
BodyIsValid(b) ==
    /\ Truthy(OptTrim(b.name))
    /\ b.mode \in {Some("reps"), Some("time")}
    /\ b.mode = Some("reps")
       => /\ b.sets # None /\ IsInteger(b.sets) /\ Floor(b.sets) >= 1
          /\ Truthy(OptTrim(b.reps))
    /\ b.mode = Some("time")
       => /\ b.timeValue # None /\ IsInteger(b.timeValue) /\ Floor(b.timeValue) >= 1
          /\ b.timeUnit \in {Some("sec"), Some("min"), Some("hour")}

\* The error of the first check the body fails, in the order name, mode,
\* sets, reps, timeValue, timeUnit.
FirstFailure(b) ==
    IF ~Truthy(OptTrim(b.name)) THEN "Exercise name required"
    ELSE IF b.mode \notin {Some("reps"), Some("time")} THEN "Mode must be 'reps' or 'time'"
    ELSE IF b.mode = Some("reps")
    THEN IF b.sets = None \/ ~IsInteger(b.sets) \/ Floor(b.sets) < 1 THEN "Sets required"
         ELSE "Reps required"
    ELSE IF b.timeValue = None \/ ~IsInteger(b.timeValue) \/ Floor(b.timeValue) < 1
         THEN "Time value required"
         ELSE "Invalid time unit"

\* C20: POST /sections/:sectionId/exercises by the owner of the Section is
\* answered 201 exactly when the trimmed name is non-empty, mode is reps or
\* time, and sets is an integer >= 1 with a non-empty trimmed reps (reps) or
\* timeValue is an integer >= 1 with timeUnit one of sec, min, hour (time);
\* otherwise it is answered 400 with the error of the first failing check.
C20_CreatedIffValid ==
    \A p \in Procs :
        (/\ pc[p] = "done"
         /\ req[p].op = "POST /sections/:sectionId/exercises"
         /\ req[p].user \in OwnerOfSection(req[p].id))
        => IF BodyIsValid(req[p].body) THEN resp[p].status = 201
           ELSE resp[p] = Err(400, FirstFailure(req[p].body))

\* C21: a DELETE of a Day or of an Exercise answered 204 leaves every other
\* Day of the store and every Exercise outside the deleted subtree exactly as
\* it was, its dayOrder or exerciseOrder included: the siblings that remain
\* are not renumbered and the gap stays.
C21_DeleteKeepsSiblingOrders ==
    [][\A p \in Procs :
        /\ Answered(p)
        /\ resp'[p].status = 204
        /\ req'[p].op \in {"DELETE /days/:dayId", "DELETE /exercises/:exerciseId"}
        => /\ days' \subseteq days
           /\ exercises' \subseteq exercises
           /\ \A d \in days : d \notin days' =>
                  req'[p].op = "DELETE /days/:dayId" /\ d.id = req'[p].id
           /\ \A e \in exercises : e \notin exercises' =>
                  IF req'[p].op = "DELETE /exercises/:exerciseId"
                  THEN e.id = req'[p].id
                  ELSE e.sectionId \in
                         {x.id : x \in {s \in sections : s.dayId = req'[p].id}}]_vars

\* An Exercise was deleted and the Exercise that came after it in the Section
\* is still at exerciseOrder 2, now the only Exercise of the Section.
C21_Witness ==
    /\ pc[1] = "done"
    /\ req[1].op = "DELETE /exercises/:exerciseId"
    /\ resp[1].status = 204
    /\ \E e \in exercises :
          /\ e.exerciseOrder = 2
          /\ \A o \in exercises : o.sectionId = e.sectionId => o = e

\* C22: a POST /plans/:planId/days answered 201 stores and returns a Day
\* whose name is "Day " followed by the decimal dayOrder of that very Day
\* when the request's name is omitted or blank (empty once trimmed), and the
\* request's name trimmed otherwise.
C22_DefaultDayName ==
    \A p \in Procs :
        pc[p] = "done" /\ req[p].op = "POST /plans/:planId/days" /\ resp[p].status = 201
        => LET day == resp[p].rows[1]
               blank == req[p].name = None \/ Trim(Val(req[p].name)) = <<>> IN
           /\ Len(resp[p].rows) = 1
           /\ day.name = IF blank
                         THEN <<"D", "a", "y", " ">> \o NumText(day.dayOrder)
                         ELSE Trim(Val(req[p].name))
           /\ day \in days

\* A second Day was created from a request with a blank name and is named
\* "Day 2".
C22_Witness ==
    /\ pc[1] = "done"
    /\ req[1].op = "POST /plans/:planId/days"
    /\ resp[1].status = 201
    /\ req[1].name = Some(<<" ">>)
    /\ resp[1].rows[1].dayOrder = 2
    /\ resp[1].rows[1].name = <<"D", "a", "y", " ", "2">>

\* The rows of a listing are exactly the set S, each once, in non-decreasing
\* order of the column.
ListsInOrder(rows, S, column) ==
    /\ Len(rows) = Cardinality(S)
    /\ {rows[i] : i \in 1..Len(rows)} = S
    /\ \A i, j \in 1..Len(rows) : i < j => rows[i][column] <= rows[j][column]

\* C23: a GET /plans/:planId/days answered 200 returns exactly the Days of
\* that Plan in ascending dayOrder, and a GET /sections/:sectionId/exercises
\* answered 200 exactly the Exercises of that Section in ascending
\* exerciseOrder.
C23_ListingsSortedByOrder ==
    \A p \in Procs :
        pc[p] = "done" /\ resp[p].status = 200
        => /\ req[p].op = "GET /plans/:planId/days"
              => ListsInOrder(resp[p].rows, DaysOf(req[p].id), "dayOrder")
           /\ req[p].op = "GET /sections/:sectionId/exercises"
              => ListsInOrder(resp[p].rows, ExercisesOf(req[p].id), "exerciseOrder")

\* The two Exercises of a Section were listed, the one at exerciseOrder 1
\* before the one at exerciseOrder 2.
C23_Witness ==
    /\ pc[1] = "done"
    /\ req[1].op = "GET /sections/:sectionId/exercises"
    /\ resp[1].status = 200
    /\ Len(resp[1].rows) = 2
    /\ resp[1].rows[1].exerciseOrder = 1
    /\ resp[1].rows[2].exerciseOrder = 2

\* Rows with equal values of the column come in order of creation, which in
\* the store is the order of their ids.
TiesInCreationOrder(rows, column) ==
    \A i, j \in 1..Len(rows) :
        i < j /\ rows[i][column] = rows[j][column] => rows[i].id < rows[j].id

\* C24: in a listing of Days or of Exercises answered 200, rows that share
\* the order value come by creation time and then id, so that the listing of
\* a given store is always the same.
C24_TiesBrokenByCreation ==
    \A p \in Procs :
        pc[p] = "done" /\ resp[p].status = 200
        => /\ req[p].op = "GET /plans/:planId/days"
              => TiesInCreationOrder(resp[p].rows, "dayOrder")
           /\ req[p].op = "GET /sections/:sectionId/exercises"
              => TiesInCreationOrder(resp[p].rows, "exerciseOrder")

\* C25: a GET /days/:dayId/sections answered 200 returns exactly three
\* Sections: warmup, workout and stretch in that order, with sectionOrder
\* 1, 2 and 3, all of the Day asked for.
C25_SectionsListedAsCreated ==
    \A p \in Procs :
        pc[p] = "done" /\ req[p].op = "GET /days/:dayId/sections" /\ resp[p].status = 200
        => /\ Len(resp[p].rows) = 3
           /\ \A k \in 1..3 :
                 /\ resp[p].rows[k].type = SectionTypes[k]
                 /\ resp[p].rows[k].sectionOrder = k
                 /\ resp[p].rows[k].dayId = req[p].id

\* C26: a GET /plans by user U answered 200 returns exactly the Plans whose
\* owner is U, each once, the most recently created first.
C26_OwnPlansNewestFirst ==
    \A p \in Procs :
        pc[p] = "done" /\ req[p].op = "GET /plans" /\ resp[p].status = 200
        => LET rows == resp[p].rows
               own == {pl \in plans : pl.userId = req[p].user} IN
           /\ Len(rows) = Cardinality(own)
           /\ {rows[i] : i \in 1..Len(rows)} = own
           /\ \A i, j \in 1..Len(rows) : i < j => rows[i].createdAt >= rows[j].createdAt

\* A user listed their two Plans, the later one first.
C26_Witness ==
    /\ pc[1] = "done"
    /\ req[1].op = "GET /plans"
    /\ resp[1].status = 200
    /\ Len(resp[1].rows) = 2
    /\ resp[1].rows[1].createdAt > resp[1].rows[2].createdAt
    /\ resp[1].rows[1].userId = req[1].user

C28_SequentialOrdersDistinct ==
    /\ \A d1, d2 \in days :
          d1.planId = d2.planId /\ d1.dayOrder = d2.dayOrder => d1 = d2
    /\ \A e1, e2 \in exercises :
          e1.sectionId = e2.sectionId /\ e1.exerciseOrder = e2.exerciseOrder => e1 = e2

\* C29: of two DELETE requests for the same Plan, Day or Exercise that are
\* both over, one of which was answered 204, the other was answered 404,
\* however the lookups and the deletes of the two were interleaved.
C29_OneDeletedOneNotFound ==
    \A p, q \in Procs :
        /\ p # q
        /\ pc[p] = "done" /\ pc[q] = "done"
        /\ req[p].op \in {"DELETE /plans/:id", "DELETE /days/:dayId",
                          "DELETE /exercises/:exerciseId"}
        /\ req[q].op = req[p].op
        /\ req[q].id = req[p].id
        /\ resp[p].status = 204
        => resp[q].status = 404

\* The number lies in the range of the unit: 1 to 59 for sec and min, 1 to
\* 12 for hour.
InUnitRange(v, unit) ==
    /\ v # NaN
    /\ Floor(v) >= 1
    /\ Ceil(v) <= (IF unit = "hour" THEN 12 ELSE 59)

\* The fields of the form the user fills in.
FormFields == {"open", "isEdit", "name", "mode", "sets", "reps", "timeValue", "timeUnit"}

\* A step of save() up to its alert or its api call: the only step that,
\* with no save under way, changes the form and none of its fields.
SaveStep ==
    /\ form.open /\ ~form.saving
    /\ form' # form
    /\ \A f \in FormFields : form'[f] = form[f]

\* C30: validateTime gives no error for the form's time value and unit
\* exactly when the value is a number from 1 to 59 with unit sec or min, or
\* from 1 to 12 with unit hour; and a save of a time-mode form for which
\* validateTime gives an error issues no request, to create or to update.
C30_TimeValidatedBeforeSave ==
    /\ [](validateTime(form.timeValue, form.timeUnit) = None
            <=> InUnitRange(Number(form.timeValue), form.timeUnit))
    /\ [][/\ SaveStep
           /\ form.mode = "time"
           /\ validateTime(form.timeValue, form.timeUnit) # None
           => form'.request = None /\ ~form'.saving]_vars

\* A save with 13 hours showed the alert of the hour range and sent nothing,
\* although the form has a name.
C30_Witness ==
    /\ form.open
    /\ form.mode = "time"
    /\ Trim(form.name) # <<>>
    /\ form.timeValue = <<"1", "3">> /\ form.timeUnit = "hour"
    /\ form.alert = Some("Hours must be <= 12")
    /\ form.request = None

=============================================================================
